---- MODULE Spec2Model ----
(***************************************************************************)
(* Model of the DED_GCPGCS_RAG backend: the in-memory vector store of      *)
(* app/rag.py, the ingestion helper of app/ingest.py and the HTTP handlers *)
(* of app/main.py.                                                         *)
(*                                                                         *)
(* Python values: a str is a sequence of one-character strings, None is    *)
(* PyNone, a dict is a record tagged with "py".  Embeddings are integer    *)
(* vectors; a cosine score is kept exactly as sgn * sqrt(num / den) in     *)
(* lowest terms, so that equal scores are equal values.                    *)
(***************************************************************************)
EXTENDS Integers, Sequences, FiniteSets, TLC

\* ------------------------------------------------------------------ bounds
MaxStore == 2
MaxTopK == 2
MaxDim == 2
MaxChunks == 2
MaxCeIds == 1

\* ------------------------------------------------------- python primitives
PyNone == <<"None">>

IsSpace(c) == c = " "

\* bool(x) for a str or None
Truthy(x) == x # PyNone /\ Len(x) > 0

RECURSIVE LStrip(_)
LStrip(s) == IF Len(s) > 0 /\ IsSpace(Head(s)) THEN LStrip(Tail(s)) ELSE s

RECURSIVE RStrip(_)
RStrip(s) ==
  IF Len(s) > 0 /\ IsSpace(s[Len(s)]) THEN RStrip(SubSeq(s, 1, Len(s) - 1)) ELSE s

\* str.strip()
Strip(s) == RStrip(LStrip(s))

SeqsUpTo(S, n) == UNION {[1..k -> S] : k \in 0..n}

Min(a, b) == IF a < b THEN a ELSE b

\* s[:k] for a list s and an int k (negative k counts from the end)
Slice_all(s, k) == s

Slice(s, k) ==
  IF k >= 0 THEN SubSeq(s, 1, Min(k, Len(s)))
  ELSE SubSeq(s, 1, IF Len(s) + k > 0 THEN Len(s) + k ELSE 0)

\* ------------------------------------------------------------------ cosine
RECURSIVE GCD(_, _)
GCD(a, b) == IF b = 0 THEN a ELSE GCD(b, a % b)

Sign(x) == IF x > 0 THEN 1 ELSE IF x < 0 THEN -1 ELSE 0

\* the float 0.0
Zero == [sgn |-> 0, num |-> 0, den |-> 1]

\* the value dot / sqrt(m), m > 0
Ratio(dot, m) ==
  IF dot = 0 THEN Zero
  ELSE LET g == GCD(dot * dot, m)
       IN [sgn |-> Sign(dot), num |-> (dot * dot) \div g, den |-> m \div g]

\* x < y for two scores
ScoreLess(x, y) ==
  IF x.sgn # y.sgn THEN x.sgn < y.sgn
  ELSE IF x.sgn = 1 THEN x.num * y.den < y.num * x.den
  ELSE IF x.sgn = -1 THEN x.num * y.den > y.num * x.den
  ELSE FALSE

RECURSIVE SumTo(_, _)
SumTo(f, n) == IF n = 0 THEN 0 ELSE f[n] + SumTo(f, n - 1)

\* sum(x*y for x, y in zip(a, b)): zip stops at the shorter vector
ZipDot(a, b) ==
  LET n == Min(Len(a), Len(b))
  IN SumTo([i \in 1..n |-> a[i] * b[i]], n)

\* sum(x*x for x in a)
SumSq(a) == SumTo([i \in 1..Len(a) |-> a[i] * a[i]], Len(a))

cosine_trunc(a, b) ==
  LET n == Min(Len(a), Len(b))
      dot == ZipDot(a, b)
      na2 == SumSq(SubSeq(a, 1, n))
      nb2 == SumSq(b)
  IN IF na2 = 0 \/ nb2 = 0 THEN Zero ELSE Ratio(dot, na2 * nb2)

cosine(a, b) ==
  LET dot == ZipDot(a, b)
      na2 == SumSq(a)
      nb2 == SumSq(b)
  IN IF na2 = 0 \/ nb2 = 0 THEN Zero ELSE Ratio(dot, na2 * nb2)

\* --------------------------------------------------------- input domains
\* texts handed to add_document / query strings
Texts == {PyNone, <<>>, <<" ">>, <<" ", "a", " ">>}

Queries == {<<"a">>, <<" ", "a", " ">>}

\* a dict is tagged "dict"; None is tagged "None"
NoneMeta == [py |-> "None"]
EmptyDict == [py |-> "dict"]
SomeMeta == [py |-> "dict", source |-> <<"m">>, filename |-> PyNone, ts |-> 1]
Metas == {NoneMeta, EmptyDict, SomeMeta}

\* bool(x) for a dict or None
TruthyDict(m) == m.py = "dict" /\ m # EmptyDict

\* vectors the embeddings endpoint answers with
EmbedSpace == {<<1, 0>>, <<-1, 1>>}

\* what client.embeddings.create does: answers with a vector, or raises
\* (NoResponse; also the argument of calls that never reach the endpoint)
NoResponse == [ok |-> FALSE, embedding |-> <<>>]

Responses == {[ok |-> TRUE, embedding |-> v] : v \in EmbedSpace} \cup {NoResponse}

TopKs == -1..MaxTopK

\* vectors cosine is applied to
Vectors == SeqsUpTo(-1..1, MaxDim)

VARIABLES VECTOR_STORE, processed_event_ids, last, gen

vars == <<VECTOR_STORE, processed_event_ids, last, gen>>

\* ------------------------------------------------------------------ rag.py
\* embed(text) with OPENAI_API_KEY set or not and the endpoint's answer:
\* the exception raised (or "none"), the value returned, the API calls made
embed_nocheck(text, key, resp) ==
  IF ~resp.ok THEN [exc |-> "APIError", val |-> <<>>, calls |-> <<text>>]
  ELSE [exc |-> "none", val |-> resp.embedding, calls |-> <<text>>]

embed(text, key, resp) ==
  IF ~key THEN [exc |-> "RuntimeError", val |-> <<>>, calls |-> <<>>]
  ELSE IF ~resp.ok THEN [exc |-> "APIError", val |-> <<>>, calls |-> <<text>>]
  ELSE [exc |-> "none", val |-> resp.embedding, calls |-> <<text>>]

\* if not text or not text.strip()
IsBlank_nostrip(text) == ~Truthy(text)

IsBlank(text) == ~Truthy(text) \/ ~Truthy(Strip(text))

\* the record add_document appends
NewRecord(text, meta, emb) ==
  [text |-> Strip(text),
   meta |-> IF TruthyDict(meta) THEN meta ELSE EmptyDict,
   embedding |-> emb]

\* VECTOR_STORE.append(rec)
Append_front(store, rec) == <<rec>> \o store

StoreAppend(store, rec) == Append(store, rec)

\* scored.sort(key=lambda x: x[0], reverse=True) on positions 1..n, where
\* score[i] is the key of position i: a stable sort, descending
RECURSIVE InsertDesc_unstable(_, _, _)
InsertDesc_unstable(s, x, score) ==
  IF s = <<>> THEN <<x>>
  ELSE IF ~ScoreLess(score[x], score[Head(s)]) THEN <<x>> \o s
  ELSE <<Head(s)>> \o InsertDesc_unstable(Tail(s), x, score)

RECURSIVE InsertDesc(_, _, _)
InsertDesc(s, x, score) ==
  IF s = <<>> THEN <<x>>
  ELSE IF ScoreLess(score[Head(s)], score[x]) THEN <<x>> \o s
  ELSE <<Head(s)>> \o InsertDesc(Tail(s), x, score)

RECURSIVE SortDesc(_, _)
SortDesc(n, score) ==
  IF n = 0 THEN <<>> ELSE InsertDesc(SortDesc(n - 1, score), n, score)

\* search(query, top_k) once the query embedding is known: the positions of the
\* records returned, in the order returned
Ranked(store, q_emb, top_k) ==
  LET score == [i \in 1..Len(store) |-> cosine(q_emb, store[i].embedding)]
  IN Slice(SortDesc(Len(store), score), top_k)

search(store, query, top_k, key, resp) ==
  IF store = <<>>
  THEN [exc |-> "none", docs |-> <<>>, idx |-> <<>>, q_emb |-> <<>>, calls |-> <<>>]
  ELSE LET e == embed(query, key, resp)
           idx == Ranked(store, e.val, top_k)
       IN IF e.exc # "none"
          THEN [exc |-> e.exc, docs |-> <<>>, idx |-> <<>>, q_emb |-> <<>>,
                calls |-> e.calls]
          ELSE [exc |-> "none", docs |-> [i \in 1..Len(idx) |-> store[idx[i]]],
                idx |-> idx, q_emb |-> e.val, calls |-> e.calls]

\* state of the response stream when no stream is being served
NoGen == [pc |-> "none", events |-> <<>>]

\* requests are served one at a time: a handler runs when no response stream
\* is open (event_gen reads and writes nothing but its own locals)
Idle == gen.pc \in {"none", "finished"}

Init ==
  /\ VECTOR_STORE = <<>>
  /\ processed_event_ids = {}
  /\ last = [op |-> "init"]
  /\ gen = NoGen

\* add_document(text, meta): blank text returns at once; otherwise the record
\* is built (strip, meta or {}, embed) and appended
add_document_blank(text, meta) ==
  /\ Idle
  /\ IsBlank(text)
  /\ last' = [op |-> "add_document", text |-> text, meta |-> meta,
              exc |-> "none", calls |-> <<>>]
  /\ gen' = NoGen
  /\ UNCHANGED <<VECTOR_STORE, processed_event_ids>>

add_document_embed(text, meta, key, resp) ==
  /\ Idle
  /\ ~IsBlank(text)
  /\ LET e == embed(Strip(text), key, resp)
     IN /\ last' = [op |-> "add_document", text |-> text, meta |-> meta,
                    key |-> key, exc |-> e.exc, calls |-> e.calls,
                    emb |-> e.val]
        /\ IF e.exc = "none"
           THEN /\ Len(VECTOR_STORE) < MaxStore
                /\ VECTOR_STORE' = StoreAppend(VECTOR_STORE, NewRecord(text, meta, e.val))
           ELSE UNCHANGED VECTOR_STORE
  /\ gen' = NoGen
  /\ UNCHANGED processed_event_ids

add_document ==
  \E text \in Texts, meta \in Metas :
    \/ add_document_blank(text, meta)
    \/ add_document_embed(text, meta, FALSE, NoResponse)
    \/ \E resp \in Responses : add_document_embed(text, meta, TRUE, resp)

\* search(query, top_k) called on the store; the key is read only when the
\* store is not empty
search_call(query, top_k, key, resp) ==
  /\ Idle
  /\ LET r == search(VECTOR_STORE, query, top_k, key, resp)
     IN last' = [op |-> "search", query |-> query, top_k |-> top_k,
                 key |-> key, exc |-> r.exc,
                 docs |-> r.docs, idx |-> r.idx, q_emb |-> r.q_emb,
                 calls |-> r.calls]
  /\ gen' = NoGen
  /\ UNCHANGED <<VECTOR_STORE, processed_event_ids>>

search_op ==
  \E query \in Queries, top_k \in TopKs, key \in BOOLEAN :
    \/ /\ VECTOR_STORE = <<>> \/ ~key
       /\ search_call(query, top_k, key, NoResponse)
    \/ /\ VECTOR_STORE # <<>> /\ key
       /\ \E resp \in Responses : search_call(query, top_k, key, resp)

\* ---------------------------------------------------------------- ingest.py
\* the names app/rag.py binds at module level
RagNames ==
  {"os", "math", "load_dotenv", "OpenAI", "client", "VECTOR_STORE",
   "_require_key", "embed", "cosine", "add_document", "search"}

\* the name app/ingest.py imports from app.rag and calls in ingest_payload
IngestCallee == "upsert_text"

\* ingest_payload(text, source, filename) at time ts: the metadata is built and
\* the callee is called.  app.rag binds no upsert_text, so the import of line 3
\* raises ImportError and nothing reaches the store.  Python raises it when
\* app.ingest is first loaded; the model raises it where the handlers call
\* ingest_payload, so that what the handlers do before that call is checked
ingest_payload(store, text, source, filename, ts) ==
  LET meta == [py |-> "dict", source |-> source, filename |-> filename, ts |-> ts]
  IN CASE IngestCallee \notin RagNames ->
       [exc |-> "ImportError", meta |-> meta, store |-> store]

Timestamps == {1}

\* ------------------------------------------------------------------ main.py
\* decode_text(raw) for bytes among 0x20, 0x61 and 0xFF: utf-8 decodes pure
\* ASCII; 0xFF makes utf-8 fail, and cp950 with errors="ignore" drops it
ByteChar(b) == IF b = 32 THEN " " ELSE "a"

Utf8Ok(raw) == \A i \in 1..Len(raw) : raw[i] < 128

decode_text(raw) ==
  IF Utf8Ok(raw) THEN [i \in 1..Len(raw) |-> ByteChar(raw[i])]
  ELSE LET kept == SelectSeq(raw, LAMBDA b : b < 128)
       IN [i \in 1..Len(kept) |-> ByteChar(kept[i])]

Raws == {<<32, 97, 32>>, <<255, 97>>}

\* POST /api/ingest with payload {text, source, filename}; a key the payload
\* lacks is PyNone here, and source defaults to "manual"
IngestPayloads ==
  [text : Texts, source : {PyNone, <<"c">>}, filename : {PyNone}]

api_ingest(payload, ts) ==
  /\ Idle
  /\ LET text == Strip(IF Truthy(payload.text) THEN payload.text ELSE <<>>)
         source == IF payload.source = PyNone THEN <<"m">> ELSE payload.source
         r == ingest_payload(VECTOR_STORE, text, source, payload.filename, ts)
     IN IF ~Truthy(text)
        THEN /\ last' = [op |-> "api_ingest", payload |-> payload,
                         exc |-> "HTTP400", detail |-> "text is required"]
             /\ UNCHANGED VECTOR_STORE
        ELSE /\ last' = IF r.exc = "none"
                         THEN [op |-> "api_ingest", payload |-> payload,
                               exc |-> "none",
                               response |-> [ingested |-> TRUE, meta |-> r.meta]]
                         ELSE [op |-> "api_ingest", payload |-> payload,
                               exc |-> r.exc]
             /\ VECTOR_STORE' = r.store
  /\ gen' = NoGen
  /\ UNCHANGED processed_event_ids

\* POST /api/upload with the file's bytes
api_upload(raw, filename, ts) ==
  /\ Idle
  /\ LET text == decode_text(raw)
         r == ingest_payload(VECTOR_STORE, text, <<"u">>, filename, ts)
     IN /\ last' = IF r.exc = "none"
                    THEN [op |-> "api_upload", raw |-> raw, exc |-> "none",
                          response |-> [uploaded |-> TRUE, meta |-> r.meta,
                                        chars |-> Len(text)]]
                    ELSE [op |-> "api_upload", raw |-> raw, exc |-> r.exc]
        /\ VECTOR_STORE' = r.store
  /\ gen' = NoGen
  /\ UNCHANGED processed_event_ids

\* str.lower() and str.endswith() on object names
LowerChar(c) ==
  CASE c = "A" -> "a" [] c = "D" -> "d" [] c = "M" -> "m"
    [] c = "T" -> "t" [] c = "X" -> "x" [] OTHER -> c

Lower(s) == [i \in 1..Len(s) |-> LowerChar(s[i])]

EndsWith(s, suf) ==
  Len(s) >= Len(suf) /\ SubSeq(s, Len(s) - Len(suf) + 1, Len(s)) = suf

\* lower.endswith(".txt") or lower.endswith(".md")
IsTextName(name) ==
  LET lower == Lower(name)
  IN EndsWith(lower, <<".", "t", "x", "t">>) \/ EndsWith(lower, <<".", "m", "d">>)

\* ce-id header values: absent (None) or an id
CeIds == {<<ToString(i)>> : i \in 1..MaxCeIds}

CeIdHeaders == {PyNone} \cup CeIds

\* object names and buckets a payload carries (PyNone: key absent)
NameTxt == <<"a", ".", "t", "x", "t">>
NameMD == <<"A", ".", "M", "D">>
NamePdf == <<"a", ".", "p", "d", "f">>
NameNoDot == <<"a", "m", "d">>
Bucket == <<"b">>

Payloads ==
  {[bucket |-> Bucket, name |-> NameTxt], [bucket |-> Bucket, name |-> NameMD],
   [bucket |-> Bucket, name |-> NamePdf], [bucket |-> Bucket, name |-> NameNoDot],
   [bucket |-> Bucket, name |-> PyNone], [bucket |-> Bucket, name |-> <<>>],
   [bucket |-> PyNone, name |-> NameTxt]}

NoPayload == [bucket |-> PyNone, name |-> PyNone]

\* request bodies: not JSON at all; JSON that is no object; an object whose
\* "data" is an object; an object without "data" carrying the keys itself
Bodies ==
  {[json |-> "invalid"], [json |-> "list"]}
    \cup {[json |-> "dict", data_is_dict |-> TRUE, data |-> p, top |-> NoPayload] :
            p \in Payloads}
    \cup {[json |-> "dict", data_is_dict |-> FALSE, data |-> NoPayload, top |-> p] :
            p \in {[bucket |-> Bucket, name |-> NameTxt],
                   [bucket |-> Bucket, name |-> PyNone]}}
    \cup {[json |-> "dict", data_is_dict |-> TRUE, data |-> NoPayload,
           top |-> [bucket |-> Bucket, name |-> NameTxt]]}

\* lines 123-129: where bucket and name are read from
Extract(body) ==
  IF body.json = "dict" /\ body.data_is_dict THEN body.data
  ELSE IF body.json = "dict" THEN body.top
  ELSE NoPayload

\* blob.download_as_bytes(): the object's bytes, or an exception
Downloads == {[ok |-> FALSE, raw |-> <<>>]} \cup {[ok |-> TRUE, raw |-> r] : r \in Raws}

\* line 117: if ce_id and ce_id in _processed_event_ids
IsDuplicate_never(ce_id, ids) == FALSE

IsDuplicate(ce_id, ids) == Truthy(ce_id) /\ ce_id \in ids

\* lines 119-120: if ce_id: _processed_event_ids.add(ce_id)
Register(ce_id, ids) == IF Truthy(ce_id) THEN ids \cup {ce_id} ELSE ids

\* line 131: if not bucket or not name
MissingBucketOrName_bucket(p) == ~Truthy(p.bucket)

MissingBucketOrName(p) == ~Truthy(p.bucket) \/ ~Truthy(p.name)

\* the event reaches the download (lines 143-147)
ReachesDownload(ce_id, body) ==
  /\ body.json # "invalid"
  /\ ~IsDuplicate(ce_id, processed_event_ids)
  /\ ~MissingBucketOrName(Extract(body))
  /\ IsTextName(Extract(body).name)

\* POST /api/eventarc/gcs, up to and including the file-type check
eventarc_gcs_early(ce_id, body) ==
  /\ Idle
  /\ ~ReachesDownload(ce_id, body)
  /\ LET p == Extract(body)
         base == [op |-> "eventarc_gcs", ce_id |-> ce_id, body |-> body]
     IN IF body.json = "invalid"
        THEN /\ last' = base @@ [exc |-> "JSONDecodeError", log |-> "none"]
             /\ UNCHANGED processed_event_ids
        ELSE IF IsDuplicate(ce_id, processed_event_ids)
        THEN /\ last' = base @@ [exc |-> "none", log |-> "none",
                                 response |-> [ok |-> TRUE, skipped |-> TRUE,
                                               reason |-> "duplicate",
                                               ce_id |-> ce_id]]
             /\ UNCHANGED processed_event_ids
        ELSE /\ processed_event_ids' = Register(ce_id, processed_event_ids)
             /\ IF MissingBucketOrName(p)
                THEN last' = base @@ [exc |-> "HTTP400", log |-> "warning",
                                      detail |-> "bucket/name not found in event payload"]
                ELSE last' = base @@ [exc |-> "none", log |-> "info",
                                      response |-> [ok |-> TRUE, skipped |-> TRUE,
                                                    reason |-> "not_txt_or_md",
                                                    bucket |-> p.bucket,
                                                    name |-> p.name]]
  /\ gen' = NoGen
  /\ UNCHANGED VECTOR_STORE

\* POST /api/eventarc/gcs from the download on
eventarc_gcs_download(ce_id, body, dl, ts) ==
  /\ Idle
  /\ ReachesDownload(ce_id, body)
  /\ processed_event_ids' = Register(ce_id, processed_event_ids)
  /\ LET p == Extract(body)
         text == decode_text(dl.raw)
         r == ingest_payload(VECTOR_STORE, text, <<"g">>, p.name, ts)
         base == [op |-> "eventarc_gcs", ce_id |-> ce_id, body |-> body,
                  dl |-> dl, log |-> "info"]
     IN IF ~dl.ok
        THEN /\ last' = base @@ [exc |-> "DownloadError"]
             /\ UNCHANGED VECTOR_STORE
        ELSE /\ last' = IF r.exc = "none"
                        THEN base @@ [exc |-> "none",
                                      response |-> [ok |-> TRUE, bucket |-> p.bucket,
                                                    name |-> p.name, meta |-> r.meta,
                                                    chars |-> Len(text)]]
                        ELSE base @@ [exc |-> r.exc]
             /\ VECTOR_STORE' = r.store
  /\ gen' = NoGen

eventarc_gcs ==
  \E ce_id \in CeIdHeaders, body \in Bodies :
    \/ eventarc_gcs_early(ce_id, body)
    \/ \E dl \in Downloads, ts \in Timestamps :
         eventarc_gcs_download(ce_id, body, dl, ts)

\* top_k of the search build_rag_text makes
RagTopK == 4

\* meta.get(k)
MetaGet(meta, k) == IF k \in DOMAIN meta THEN meta[k] ELSE PyNone

\* build_rag_text, given the documents search returned: the lines joined by
\* "\n", the trailing empty line removed by strip()
RECURSIVE RagLines(_, _)
RagLines(docs, i) ==
  IF i > Len(docs) THEN <<>>
  ELSE <<[kind |-> "prefix", n |-> i,
          source |-> MetaGet(docs[i].meta, "source"),
          file |-> MetaGet(docs[i].meta, "filename"),
          ts |-> MetaGet(docs[i].meta, "ts")],
         [kind |-> "text", text |-> docs[i].text],
         [kind |-> "empty"]>> \o RagLines(docs, i + 1)

build_rag_text(docs) ==
  IF docs = <<>> THEN <<[kind |-> "placeholder"]>>
  ELSE LET lines == RagLines(docs, 1) IN SubSeq(lines, 1, Len(lines) - 1)

\* GET /api/stream?q=...: the key check, the retrieval, and the response
\* object holding the generator, not yet started
stream_answer(q, key, resp) ==
  /\ Idle
  /\ LET r == search(VECTOR_STORE, q, RagTopK, key, resp)
     IN IF ~key
        THEN /\ last' = [op |-> "stream_answer", q |-> q, key |-> key,
                         exc |-> "HTTP500", calls |-> <<>>]
             /\ gen' = NoGen
        ELSE IF r.exc # "none"
        THEN /\ last' = [op |-> "stream_answer", q |-> q, key |-> key,
                         exc |-> r.exc, calls |-> r.calls]
             /\ gen' = NoGen
        ELSE /\ last' = [op |-> "stream_answer", q |-> q, key |-> key,
                         exc |-> "none", calls |-> r.calls,
                         rag_text |-> build_rag_text(r.docs)]
             /\ gen' = [pc |-> "ready", events |-> <<>>]
  /\ UNCHANGED <<VECTOR_STORE, processed_event_ids>>

\* event_gen: what one resumption of the generator does.  Each operator gives
\* the generator's next state, the event yielded and the exception that
\* escapes the generator ("none": it was caught, or there was none)
Yield(g, pc, kind) ==
  [gen |-> [pc |-> pc, events |-> Append(g.events, kind)],
   yielded |-> kind, exc |-> "none"]

\* the generator runs on without yielding
Continue(g, pc) ==
  [gen |-> [pc |-> pc, events |-> g.events], yielded |-> "nothing", exc |-> "none"]

\* except Exception as e: yield the error event
OnException_uncaught(g, exc) ==
  [gen |-> [pc |-> "finished", events |-> g.events], yielded |-> "nothing",
   exc |-> exc]

OnException(g, exc) == Yield(g, "at_error", "error")

\* what an iteration of "for chunk in stream" meets
ChunkKinds == {"content", "empty", "raise", "end"}

DataCount(g) == Len(SelectSeq(g.events, LAMBDA e : e = "data"))

\* line 182: the first resumption yields the start event
gen_start ==
  /\ gen.pc = "ready"
  /\ LET r == Yield(gen, "at_start", "start")
     IN /\ gen' = r.gen
        /\ last' = [op |-> "event_gen", met |-> "first_next",
                    yielded |-> r.yielded, exc |-> r.exc]
  /\ UNCHANGED <<VECTOR_STORE, processed_event_ids>>

\* lines 190-196: client.chat.completions.create(...) returns a stream or raises
gen_create(ok) ==
  /\ gen.pc = "at_start"
  /\ LET r == IF ok THEN Continue(gen, "loop") ELSE OnException(gen, "APIError")
     IN /\ gen' = r.gen
        /\ last' = [op |-> "event_gen",
                    met |-> IF ok THEN "create_ok" ELSE "create_raise",
                    yielded |-> r.yielded, exc |-> r.exc]
  /\ UNCHANGED <<VECTOR_STORE, processed_event_ids>>

\* lines 198-204: one iteration of the loop, or its end
gen_chunk(c) ==
  /\ gen.pc = "loop"
  /\ c = "content" => DataCount(gen) < MaxChunks
  /\ LET r == CASE c = "content" -> Yield(gen, "loop", "data")
                [] c = "empty" -> Continue(gen, "loop")
                [] c = "raise" -> OnException(gen, "StreamError")
                [] c = "end" -> Yield(gen, "at_done", "done")
     IN /\ gen' = r.gen
        /\ last' = [op |-> "event_gen", met |-> c, yielded |-> r.yielded,
                    exc |-> r.exc]
  /\ UNCHANGED <<VECTOR_STORE, processed_event_ids>>

\* resumed after the done or the error event, the generator returns
gen_finish ==
  /\ gen.pc \in {"at_done", "at_error"}
  /\ gen' = [gen EXCEPT !.pc = "finished"]
  /\ last' = [op |-> "event_gen", met |-> "return", yielded |-> "nothing",
              exc |-> "none"]
  /\ UNCHANGED <<VECTOR_STORE, processed_event_ids>>

\* ------------------------------------------------------------ specification
Next ==
  \/ add_document
  \/ search_op
  \/ \E payload \in IngestPayloads, ts \in Timestamps : api_ingest(payload, ts)
  \/ \E raw \in Raws, ts \in Timestamps : api_upload(raw, <<"f">>, ts)
  \/ eventarc_gcs
  \/ \E q \in Queries, key \in BOOLEAN :
       \/ /\ VECTOR_STORE = <<>> \/ ~key
          /\ stream_answer(q, key, NoResponse)
       \/ /\ VECTOR_STORE # <<>> /\ key
          /\ \E resp \in Responses : stream_answer(q, key, resp)
  \/ gen_start
  \/ \E ok \in BOOLEAN : gen_create(ok)
  \/ \E c \in ChunkKinds : gen_chunk(c)
  \/ gen_finish

Spec == Init /\ [][Next]_vars

\* cosine applied to every pair of vectors up to MaxDim components
InitCosine ==
  /\ VECTOR_STORE = <<>>
  /\ processed_event_ids = {}
  /\ gen = NoGen
  /\ \E a \in Vectors, b \in Vectors :
       last = [op |-> "cosine", a |-> a, b |-> b, result |-> Zero, done |-> FALSE]

cosine_call ==
  /\ last.op = "cosine"
  /\ ~last.done
  /\ last' = [last EXCEPT !.result = cosine(last.a, last.b), !.done = TRUE]
  /\ UNCHANGED <<VECTOR_STORE, processed_event_ids, gen>>

NextCosine == cosine_call

SpecCosine == InitCosine /\ [][NextCosine]_vars

\* ------------------------------------------------------------------ claims
\* text that is None or holds nothing but whitespace
WhitespaceOnly(t) == t = PyNone \/ \A i \in 1..Len(t) : t[i] = " "

\* text with the whitespace at both ends removed, stated without Strip
IsTrimOf(t, s) ==
  /\ s # <<>> => s[1] # " " /\ s[Len(s)] # " "
  /\ \E i \in 0..Len(t), j \in 0..Len(t) :
       /\ i + Len(s) + j = Len(t)
       /\ \A k \in 1..i : t[k] = " "
       /\ \A k \in 1..j : t[Len(t) + 1 - k] = " "
       /\ \A k \in 1..Len(s) : s[k] = t[i + k]

\* an ingestion request whose text is not blank and which the handler's own
\* validation lets through
IngestedText ==
  CASE last.op = "api_ingest" -> last.payload.text
    [] last.op = "api_upload" -> decode_text(last.raw)
    [] last.op = "eventarc_gcs" /\ "dl" \in DOMAIN last /\ last.dl.ok ->
         decode_text(last.dl.raw)
    [] OTHER -> PyNone

\* C1: an ingestion request carrying non-blank text, through any of the three
\* ingestion paths, fails only for want of the key or of the embeddings
\* endpoint, and otherwise appends exactly one record, holding the trimmed text
C1_IngestAppendsOneRecord ==
  [][(~WhitespaceOnly(IngestedText))' =>
       /\ last'.exc \in {"none", "RuntimeError", "APIError"}
       /\ last'.exc = "none" =>
            /\ Len(VECTOR_STORE') = Len(VECTOR_STORE) + 1
            /\ IsTrimOf(IngestedText', VECTOR_STORE'[Len(VECTOR_STORE')].text)]_vars

\* C2: a search that returns, with top_k >= 0, returns at most top_k records,
\* each of them a record of the store; on an empty store it returns no record
C2_SearchWithinStore ==
  last.op = "search" =>
    /\ (last.exc = "none" /\ last.top_k >= 0) =>
         /\ Len(last.docs) <= last.top_k
         /\ \A i \in 1..Len(last.docs) :
              \E j \in 1..Len(VECTOR_STORE) : last.docs[i] = VECTOR_STORE[j]
    /\ VECTOR_STORE = <<>> => last.exc = "none" /\ last.docs = <<>>

C2_Witness ==
  /\ last.op = "search" /\ last.exc = "none"
  /\ Len(VECTOR_STORE) = 2 /\ last.top_k = 1 /\ Len(last.docs) = 1

\* position i of the store ranks before position j for query embedding q:
\* a strictly higher score, or the same score and inserted earlier
RanksBefore(q, i, j) ==
  LET si == cosine(q, VECTOR_STORE[i].embedding)
      sj == cosine(q, VECTOR_STORE[j].embedding)
  IN ScoreLess(sj, si) \/ (si = sj /\ i < j)

\* C3: on a non-empty store a search that returns, with top_k >= 0, returns
\* min(top_k, size) records, in descending order of score with equal scores in
\* insertion order, and every record left out ranks after every one returned
C3_SearchTopK ==
  (last.op = "search" /\ last.exc = "none" /\ last.top_k >= 0
     /\ VECTOR_STORE # <<>>) =>
    LET n == Len(VECTOR_STORE)
        idx == last.idx
        m == Len(idx)
    IN /\ m = Min(last.top_k, n)
       /\ Len(last.docs) = m
       /\ \A k \in 1..m : idx[k] \in 1..n /\ last.docs[k] = VECTOR_STORE[idx[k]]
       /\ \A k \in 1..m, l \in 1..m : k < l => RanksBefore(last.q_emb, idx[k], idx[l])
       /\ \A j \in 1..n :
            (\A k \in 1..m : idx[k] # j) =>
              \A k \in 1..m : RanksBefore(last.q_emb, idx[k], j)

C3_Witness ==
  /\ last.op = "search" /\ last.exc = "none"
  /\ Len(VECTOR_STORE) = 2 /\ last.top_k = 1 /\ last.idx = <<2>>

\* C4: add_document with None, empty or whitespace-only text returns without
\* an error, makes no embedding call and leaves the store as it was
C4_BlankIsNoOp ==
  [][(last'.op = "add_document" /\ WhitespaceOnly(last'.text)) =>
       /\ VECTOR_STORE' = VECTOR_STORE
       /\ last'.calls = <<>>
       /\ last'.exc = "none"]_vars

C4_Witness ==
  /\ last.op = "add_document" /\ last.text = <<" ">> /\ last.meta = SomeMeta
  /\ Len(VECTOR_STORE) = 1

\* C9: cosine(a, b) = cosine(b, a), and it is 0.0 when either vector has zero
\* magnitude
C9_CosineSymmetric ==
  (last.op = "cosine" /\ last.done) =>
    /\ last.result = cosine(last.b, last.a)
    /\ (SumSq(last.a) = 0 \/ SumSq(last.b) = 0) => last.result = Zero

C9_Witness ==
  /\ last.op = "cosine" /\ last.done
  /\ Len(last.a) # Len(last.b) /\ last.result # Zero

\* C5: the store only grows at its end: no step shortens it, and every record
\* stays at its position with its text, metadata and embedding
C5_AppendOnly ==
  [][/\ Len(VECTOR_STORE') >= Len(VECTOR_STORE)
     /\ \A i \in 1..Len(VECTOR_STORE) : VECTOR_STORE'[i] = VECTOR_STORE[i]]_vars

C5_Witness ==
  /\ Len(VECTOR_STORE) = 2 /\ VECTOR_STORE[1] # VECTOR_STORE[2]
  /\ last.op = "stream_answer" /\ last.exc = "none"

\* a cloud event whose JSON body carries no bucket or no object name
EventMalformed ==
  /\ last.op = "eventarc_gcs" /\ last.body.json # "invalid"
  /\ LET p == Extract(last.body)
     IN p.bucket \in {PyNone, <<>>} \/ p.name \in {PyNone, <<>>}

\* a cloud event whose JSON body names an object that is neither .txt nor .md
EventUnsupported ==
  /\ last.op = "eventarc_gcs" /\ last.body.json # "invalid"
  /\ ~EventMalformed
  /\ Extract(last.body).name \notin {NameTxt, NameMD}

EventSkipped == last.exc = "none" /\ "response" \in DOMAIN last /\ last.response.skipped

\* C6 as stated: a malformed event, or one of an unsupported file type, gets a
\* skipped result and no error
C6_MalformedIsSkipped == (EventMalformed \/ EventUnsupported) => EventSkipped

\* C6 as amended: such an event leaves the store unchanged; one whose ce-id was
\* seen gets the duplicate result; otherwise a malformed one is logged and
\* rejected with HTTP 400, and an unsupported one is logged and skipped
C6_MalformedRejectedUnsupportedSkipped ==
  [][(EventMalformed \/ EventUnsupported)' =>
       /\ VECTOR_STORE' = VECTOR_STORE
       /\ IF last'.ce_id # PyNone /\ last'.ce_id \in processed_event_ids
          THEN EventSkipped' /\ last'.response.reason = "duplicate"
          ELSE /\ last'.log # "none"
               /\ EventMalformed' =>
                    last'.exc = "HTTP400" /\ "response" \notin DOMAIN last'
               /\ EventUnsupported' =>
                    EventSkipped' /\ last'.response.reason = "not_txt_or_md"]_vars

C6_Witness ==
  /\ EventMalformed /\ last.exc = "HTTP400" /\ Extract(last.body).name = PyNone
  /\ VECTOR_STORE # <<>>

\* an operation run without the API key that needs an embedding or a completion
NeedsKeyWithout ==
  \/ last.op = "add_document" /\ ~WhitespaceOnly(last.text) /\ ~last.key
  \/ last.op = "search" /\ ~last.key /\ VECTOR_STORE # <<>>
  \/ last.op = "stream_answer" /\ ~last.key

\* C7: without the API key, add_document with non-blank text, search on a
\* non-empty store and the stream endpoint raise the configuration error before
\* any API call, open no stream, and leave the store unchanged
C7_NoKeyFailsFast ==
  [][NeedsKeyWithout' =>
       /\ last'.exc = (IF last'.op = "stream_answer" THEN "HTTP500" ELSE "RuntimeError")
       /\ last'.calls = <<>>
       /\ gen' = NoGen
       /\ VECTOR_STORE' = VECTOR_STORE]_vars

C7_Witness ==
  /\ last.op = "search" /\ ~last.key /\ last.exc = "RuntimeError"
  /\ VECTOR_STORE # <<>>

\* C8: the events of a response stream are the start event, then data events,
\* then at most one terminal event (done or error) with nothing after it; a
\* generator that has returned has emitted its terminal event; done is emitted
\* when the completion stream ends, error when the call or the iteration
\* raises; and no resumption of the generator lets an exception escape
C8_StreamShape ==
  LET ev == gen.events
      n == Len(ev)
  IN /\ n >= 1 => ev[1] = "start"
     /\ \A i \in 2..n : ev[i] # "start"
     /\ \A i \in 1..(n - 1) : ev[i] \notin {"done", "error"}
     /\ \A i \in 2..(n - 1) : ev[i] = "data"
     /\ gen.pc = "finished" => n >= 2 /\ ev[n] \in {"done", "error"}
     /\ last.op = "event_gen" =>
          /\ last.exc = "none"
          /\ last.yielded = "done" <=> last.met = "end"
          /\ last.yielded = "error" <=> last.met \in {"create_raise", "raise"}
          /\ last.yielded # "nothing" => ev[n] = last.yielded

C8_Witness == gen.pc = "finished" /\ gen.events = <<"start", "data", "error">>

\* a delivery whose ce-id is not empty and is already in the processed set
SeenDelivery ==
  /\ last'.op = "eventarc_gcs"
  /\ last'.ce_id # PyNone /\ last'.ce_id # <<>>
  /\ last'.ce_id \in processed_event_ids

DuplicateResult ==
  /\ last'.exc = "none" /\ "response" \in DOMAIN last'
  /\ last'.response.skipped /\ last'.response.reason = "duplicate"
  /\ VECTOR_STORE' = VECTOR_STORE

\* C10 as stated: every delivery whose ce-id was already seen gets the
\* duplicate result and leaves the store unchanged, and the processed set only
\* grows
C10_SeenIsDuplicate ==
  [][/\ processed_event_ids \subseteq processed_event_ids'
     /\ SeenDelivery => DuplicateResult]_vars

\* C10 as amended: the same, for deliveries whose body parses as JSON (the body
\* is parsed before the ce-id is looked up); a delivery that reaches the
\* download carries no ce-id or a new one; and a parsed delivery with a
\* non-empty ce-id leaves it in the processed set
C10_SeenParsedIsDuplicate ==
  [][/\ processed_event_ids \subseteq processed_event_ids'
     /\ (SeenDelivery /\ last'.body.json # "invalid") => DuplicateResult
     /\ (last'.op = "eventarc_gcs" /\ "dl" \in DOMAIN last') =>
          last'.ce_id \notin processed_event_ids
     /\ (last'.op = "eventarc_gcs" /\ last'.body.json # "invalid"
           /\ last'.ce_id \notin {PyNone, <<>>}) =>
          last'.ce_id \in processed_event_ids']_vars

C10_Witness ==
  /\ last.op = "eventarc_gcs" /\ last.exc = "none"
  /\ last.response.reason = "duplicate" /\ Extract(last.body).name = NameTxt
  /\ VECTOR_STORE # <<>>

====
